---- MODULE Spec2Model ----
(***************************************************************************)
(* BracketContext of bracket-bevy (src/bracket-bevy/src/context.rs): the   *)
(* layer stack with its current-layer index, the immediate drawing         *)
(* operations, and the deferred draw-batch compositor (submit_batch,       *)
(* render_all_batches).                                                    *)
(***************************************************************************)
EXTENDS Integers, Sequences, FiniteSets, TLC

\* ------------------------------------------------------------------ bounds
NumLayers == 2
MaxBatches == 2
MaxBatchLen == 2
MaxKey == 1
MaxZ == 1
NumThreads == 2
MaxPixels == 2

VARIABLES
    terminals,        \* Mutex<Vec<Box<dyn ConsoleFrontEnd>>>: the layer grids
    current_layer,    \* Mutex<usize>: index (0-based) of the selected layer
    command_buffers,  \* Mutex<Vec<(usize, DrawBatch)>>: submitted batches
    panicked,         \* an unchecked index was out of range: the call panicked
    pc,               \* "idle"; "replay" inside render_all_batches; "returned"
                      \* once it has returned and no call was made since
    bi,               \* replay position: index of the batch being replayed
    ci,               \* replay position: index of the command in that batch
    submitted,        \* history: (z_order, batch) as passed to submit_batch
    order,            \* history: order[i] is the submission number of entry i
    dispatched,       \* history: the commands dispatched by the latest pass
    pass_start,       \* history: <<terminals, current_layer>> when it started
    tpc,              \* per caller thread: where it is inside its call
    tcall,            \* per caller thread: the call it is making
    tidx,             \* per caller thread: the index current_layer() returned
    tlen,             \* per caller thread: the buffer length its push read
    lock_terminals,        \* owner of the terminals mutex, 0 when free
    lock_current_layer,    \* owner of the current_layer mutex, 0 when free
    lock_command_buffers,  \* owner of the command_buffers mutex, 0 when free
    ret                    \* the value the latest query returned, tagged with
                           \* its type; <<"unit">> before the first query

Threads == 1..NumThreads

ctxVars == <<terminals, current_layer, panicked>>
histVars == <<submitted, order, dispatched, pass_start>>
lockVars == <<lock_terminals, lock_current_layer, lock_command_buffers>>
threadVars == <<tpc, tcall, tidx, tlen, lock_terminals, lock_current_layer,
                lock_command_buffers, ret>>
passVars == <<pc, bi, ci, dispatched, pass_start>>
vars == <<terminals, current_layer, command_buffers, panicked, pc, bi, ci,
          submitted, order, dispatched, pass_start, tpc, tcall, tidx, tlen,
          lock_terminals, lock_current_layer, lock_command_buffers, ret>>

\* ------------------------------------------------- the layer grid (external)
\* The grid is the ConsoleFrontEnd collaborator: one addressable cell surface
\* with a clipping region and two alpha channels.
Cells == {<<0, 0>>}

BlankCell == [glyph |-> 0, fg |-> 1, bg |-> 0]

NewGrid == [cells |-> [c \in Cells |-> BlankCell], clip |-> <<>>,
            fg_alpha |-> 1, bg_alpha |-> 1, pixel_size |-> <<1, 1>>]

\* The queries of a grid: its size in characters (one column, one row), the
\* cell index of a position, the checked cell index, the clipping region and
\* the size in pixels.
Grid_get_char_size(g) == <<Cardinality({c[1] : c \in Cells}), Cardinality({c[2] : c \in Cells})>>

Grid_at(g, x, y) == y * Grid_get_char_size(g)[1] + x

Grid_try_at(g, x, y) ==
    IF <<x, y>> \in Cells THEN <<"Some", Grid_at(g, x, y)>> ELSE <<"None">>

Grid_get_clipping(g) == g.clip

Grid_get_pixel_size(g) == g.pixel_size

\* resize fits the grid to the available size: its size in pixels becomes
\* what its font and scaling make of it.
Grid_resize(g, pixel_size) == [g EXCEPT !.pixel_size = pixel_size]

Grid_cls(g) == [g EXCEPT !.cells = [c \in Cells |-> BlankCell]]

Grid_cls_bg(g, color) ==
    [g EXCEPT !.cells = [c \in Cells |-> [glyph |-> 0, fg |-> 1, bg |-> color]]]

Grid_set(g, x, y, fg, bg, glyph) ==
    [g EXCEPT !.cells[<<x, y>>] = [glyph |-> glyph, fg |-> fg, bg |-> bg]]

Grid_set_bg(g, x, y, bg) == [g EXCEPT !.cells[<<x, y>>].bg = bg]

\* The print family writes the text (here one glyph) at the addressed cell.
Grid_print(g, x, y, text) == [g EXCEPT !.cells[<<x, y>>].glyph = text]

Grid_print_color(g, x, y, text, fg, bg) == Grid_set(g, x, y, fg, bg, text)

\* The box family draws a border glyph ('#', 35) at the box's corner.
Grid_draw_box(g, x, y, width, height, fg, bg) == Grid_set(g, x, y, fg, bg, 35)

Grid_fill_region(g, target, glyph, fg, bg) ==
    Grid_set(g, target[1], target[2], fg, bg, glyph)

\* The bar family draws a bar glyph ('=', 61) at the bar's origin.
Grid_draw_bar(g, x, y, size, n, max, fg, bg) == Grid_set(g, x, y, fg, bg, 61)

Grid_set_clipping(g, clipping) == [g EXCEPT !.clip = clipping]

Grid_set_all_fg_alpha(g, alpha) == [g EXCEPT !.fg_alpha = alpha]

Grid_set_all_bg_alpha(g, alpha) == [g EXCEPT !.bg_alpha = alpha]

Grid_set_all_alpha(g, fg, bg) == [g EXCEPT !.fg_alpha = fg, !.bg_alpha = bg]

\* ------------------------------------------------------ immediate operations
\* Faulty variant of CurrentLayer: the layer that was current when the pass
\* started is used for the whole pass.
LayerAtPassStart == IF pass_start # <<>> THEN pass_start[2] ELSE current_layer

\* fn current_layer(&self) -> usize
CurrentLayer == current_layer

\* self.terminals.lock()[self.current_layer()].op(..): the grid at the index
\* read from current_layer is replaced by op's result; an index that is not
\* in the Vec panics (unchecked indexing) before the grid is touched.
Forward(Op(_)) ==
    IF CurrentLayer < Len(terminals)
    THEN /\ terminals' = [terminals EXCEPT ![CurrentLayer + 1] = Op(@)]
         /\ UNCHANGED <<current_layer, panicked>>
    ELSE /\ panicked' = TRUE
         /\ UNCHANGED <<terminals, current_layer>>

set_clipping(clipping) == Forward(LAMBDA g : Grid_set_clipping(g, clipping))

\* Faulty variant of set_layer: the selection is dropped.
set_layer_dropped(layer) == UNCHANGED <<terminals, current_layer, panicked>>

\* Faulty variant of set_layer: the index is validated, and one outside the
\* stack is fatal at the selection.
set_layer_checked(layer) ==
    /\ current_layer' = IF layer < Len(terminals) THEN layer ELSE current_layer
    /\ panicked' = (layer >= Len(terminals))
    /\ UNCHANGED terminals

set_layer(layer) ==
    /\ current_layer' = layer
    /\ UNCHANGED <<terminals, panicked>>

\* Faulty variant of cls: every layer is cleared.
cls_every_layer ==
    /\ terminals' = [i \in 1..Len(terminals) |-> Grid_cls(terminals[i])]
    /\ UNCHANGED <<current_layer, panicked>>

cls == Forward(LAMBDA g : Grid_cls(g))

cls_bg(color) == Forward(LAMBDA g : Grid_cls_bg(g, color))

set(x, y, fg, bg, glyph) == Forward(LAMBDA g : Grid_set(g, x, y, fg, bg, glyph))

set_bg(x, y, bg) == Forward(LAMBDA g : Grid_set_bg(g, x, y, bg))

print(x, y, text) == Forward(LAMBDA g : Grid_print(g, x, y, text))

print_centered(y, text) == Forward(LAMBDA g : Grid_print(g, 0, y, text))

print_color_centered(y, fg, bg, text) ==
    Forward(LAMBDA g : Grid_print_color(g, 0, y, text, fg, bg))

print_centered_at(x, y, text) == Forward(LAMBDA g : Grid_print(g, x, y, text))

print_color_centered_at(x, y, fg, bg, text) ==
    Forward(LAMBDA g : Grid_print_color(g, x, y, text, fg, bg))

print_right(x, y, text) == Forward(LAMBDA g : Grid_print(g, x, y, text))

print_color_right(x, y, fg, bg, text) ==
    Forward(LAMBDA g : Grid_print_color(g, x, y, text, fg, bg))

print_color(x, y, text, foreground, background) ==
    Forward(LAMBDA g : Grid_print_color(g, x, y, text, foreground, background))

printer(x, y, output, align, background) ==
    Forward(LAMBDA g : Grid_print(g, x, y, output))

draw_box(x, y, width, height, fg, bg) ==
    Forward(LAMBDA g : Grid_draw_box(g, x, y, width, height, fg, bg))

draw_hollow_box(x, y, width, height, fg, bg) ==
    Forward(LAMBDA g : Grid_draw_box(g, x, y, width, height, fg, bg))

draw_box_double(x, y, width, height, fg, bg) ==
    Forward(LAMBDA g : Grid_draw_box(g, x, y, width, height, fg, bg))

draw_hollow_box_double(x, y, width, height, fg, bg) ==
    Forward(LAMBDA g : Grid_draw_box(g, x, y, width, height, fg, bg))

fill_region(target, glyph, fg, bg) ==
    Forward(LAMBDA g : Grid_fill_region(g, target, glyph, fg, bg))

draw_bar_horizontal(x, y, width, n, max, fg, bg) ==
    Forward(LAMBDA g : Grid_draw_bar(g, x, y, width, n, max, fg, bg))

draw_bar_vertical(x, y, height, n, max, fg, bg) ==
    Forward(LAMBDA g : Grid_draw_bar(g, x, y, height, n, max, fg, bg))

\* context.rs:325-327 forwards to the grid's set_all_bg_alpha.
set_all_fg_alpha(alpha) == Forward(LAMBDA g : Grid_set_all_bg_alpha(g, alpha))

\* Faulty variant of set_all_bg_alpha: the foreground channel is set.
set_all_bg_alpha_fg(alpha) == Forward(LAMBDA g : Grid_set_all_fg_alpha(g, alpha))

set_all_bg_alpha(alpha) == Forward(LAMBDA g : Grid_set_all_bg_alpha(g, alpha))

set_all_alpha(fg, bg) == Forward(LAMBDA g : Grid_set_all_alpha(g, fg, bg))

\* ------------------------------------------------------------------ queries
\* self.terminals.lock()[self.current_layer()].query(..): the value the grid
\* at the current-layer index returns; an index that is not in the Vec panics
\* and nothing is returned.
Query(F(_)) ==
    IF CurrentLayer < Len(terminals)
    THEN /\ ret' = F(terminals[CurrentLayer + 1])
         /\ UNCHANGED <<terminals, current_layer, panicked>>
    ELSE /\ panicked' = TRUE
         /\ UNCHANGED <<terminals, current_layer, ret>>

get_char_size ==
    Query(LAMBDA g : <<"size", Grid_get_char_size(g)[1], Grid_get_char_size(g)[2]>>)

at(x, y) == Query(LAMBDA g : <<"usize", Grid_at(g, x, y)>>)

try_at(x, y) == Query(LAMBDA g : Grid_try_at(g, x, y))

get_clipping == Query(LAMBDA g : <<"clip", Grid_get_clipping(g)>>)

\* f32::max on the sizes the layers report
Max(a, b) == IF a >= b THEN a ELSE b

\* The for_each of get_pixel_size: the fold of the component-wise max over
\* the layers, from the accumulator acc.
RECURSIVE FoldPixelSize(_, _)
FoldPixelSize(ts, acc) ==
    IF ts = <<>> THEN acc
    ELSE FoldPixelSize(Tail(ts),
             <<Max(acc[1], Grid_get_pixel_size(Head(ts))[1]),
               Max(acc[2], Grid_get_pixel_size(Head(ts))[2])>>)

\* Faulty variant of get_pixel_size: the size of the current layer.
get_pixel_size_current ==
    /\ ret' = IF CurrentLayer < Len(terminals)
              THEN <<"size", Grid_get_pixel_size(terminals[CurrentLayer + 1])[1],
                     Grid_get_pixel_size(terminals[CurrentLayer + 1])[2]>>
              ELSE <<"size", 0, 0>>
    /\ UNCHANGED <<terminals, current_layer, panicked>>

get_pixel_size ==
    /\ LET pixel_size == FoldPixelSize(terminals, <<0, 0>>)
       IN ret' = <<"size", pixel_size[1], pixel_size[2]>>
    /\ UNCHANGED <<terminals, current_layer, panicked>>

\* lock.iter_mut().for_each(|t| t.resize(&available_size)); sizes[i] is the
\* size in pixels layer i takes.
resize_terminals(sizes) ==
    /\ terminals' = [i \in 1..Len(terminals) |-> Grid_resize(terminals[i], sizes[i])]
    /\ UNCHANGED <<current_layer, panicked>>

\* ------------------------------------------------------------- draw batches
\* DrawCommand values are tuples <<variant, fields...>>; a DrawBatch is
\* [batch: Seq of <<priority key, command>>, needs_sort]; a command-buffer
\* entry is <<z_order, batch>>.
SeqsUpTo(S, n) == UNION {[1..k -> S] : k \in 0..n}

Batches(keys, cmds, flags) ==
    {[batch |-> s, needs_sort |-> f] : s \in SeqsUpTo(keys \X cmds, MaxBatchLen), f \in flags}

\* pub fn new_draw_batch(&self) -> DrawBatch
new_draw_batch == [batch |-> <<>>, needs_sort |-> FALSE]

\* Faulty variant of InsertByKey: e goes before the elements of equal key.
RECURSIVE InsertBeforeEqual(_, _)
InsertBeforeEqual(s, e) ==
    IF s = <<>> THEN <<e>>
    ELSE IF e[1] <= s[1][1] THEN <<e>> \o s
    ELSE <<s[1]>> \o InsertBeforeEqual(Tail(s), e)

\* Insertion of e into the key-sorted s after every element whose key is not
\* greater: slice::sort_by is a stable sort.
RECURSIVE InsertByKey(_, _)
InsertByKey(s, e) ==
    IF s = <<>> THEN <<e>>
    ELSE IF e[1] < s[1][1] THEN <<e>> \o s
    ELSE <<s[1]>> \o InsertByKey(Tail(s), e)

\* batch.batch.sort_by(|a, b| a.0.cmp(&b.0))
RECURSIVE sort_by(_)
sort_by(s) ==
    IF s = <<>> THEN <<>>
    ELSE InsertByKey(sort_by(SubSeq(s, 1, Len(s) - 1)), s[Len(s)])

\* Faulty variant of SortedBatch: the flag is ignored.
NeverSorted(batch) == batch

\* The batch as submit_batch stores it.
SortedBatch(batch) ==
    IF batch.needs_sort THEN [batch EXCEPT !.batch = sort_by(@)] ELSE batch

\* Faulty variant of submit_batch: a SetTarget of the batch selects its
\* layer at submission.
submit_batch_eager(z_order, batch) ==
    /\ command_buffers' = Append(command_buffers, <<z_order, SortedBatch(batch)>>)
    /\ current_layer' =
           IF \E i \in 1..Len(batch.batch) : batch.batch[i][2][1] = "SetTarget"
           THEN (batch.batch[CHOOSE i \in 1..Len(batch.batch) :
                                 batch.batch[i][2][1] = "SetTarget"])[2][2]
           ELSE current_layer
    /\ UNCHANGED <<terminals, panicked>>

submit_batch(z_order, batch) ==
    /\ command_buffers' = Append(command_buffers, <<z_order, SortedBatch(batch)>>)
    /\ UNCHANGED ctxVars

\* ------------------------------------------------------------------- replay
Perms(n) == {p \in [1..n -> 1..n] : \A i, j \in 1..n : p[i] = p[j] => i = j}

\* Faulty variant of sort_unstable_by: the buffer stays in submission order.
no_sort(buf) == {[i \in 1..Len(buf) |-> i]}

\* batches.sort_unstable_by(|a, b| a.0.cmp(&b.0)): the permutations that put
\* the entries in non-decreasing z-order; the order of entries with equal
\* z-order is not specified by an unstable sort.
sort_unstable_by(buf) ==
    {p \in Perms(Len(buf)) : \A i \in 1..(Len(buf) - 1) : buf[p[i]][1] <= buf[p[i + 1]][1]}

\* Faulty variant of FirstNonEmpty: the batches after the first replayed one
\* are skipped.
SkipRest(buf, b) ==
    IF b = 1 /\ \E k \in 1..Len(buf) : buf[k][2].batch # <<>>
    THEN CHOOSE k \in 1..Len(buf) :
             /\ buf[k][2].batch # <<>>
             /\ \A m \in 1..(k - 1) : buf[m][2].batch = <<>>
    ELSE Len(buf) + 1

\* The first batch at or after index b that holds a command; Len + 1 if none.
FirstNonEmpty(buf, b) ==
    IF \E k \in b..Len(buf) : buf[k][2].batch # <<>>
    THEN CHOOSE k \in b..Len(buf) :
             /\ buf[k][2].batch # <<>>
             /\ \A m \in b..(k - 1) : buf[m][2].batch = <<>>
    ELSE Len(buf) + 1

\* The match of render_all_batches: one arm per DrawCommand variant.
Apply(cmd) ==
    CASE cmd[1] = "ClearScreen" -> cls
      [] cmd[1] = "ClearToColor" -> cls_bg(cmd[2])
      [] cmd[1] = "SetTarget" -> set_layer(cmd[2])
      [] cmd[1] = "Set" -> set(cmd[2], cmd[3], cmd[4], cmd[5], cmd[6])
      [] cmd[1] = "SetBackground" -> set_bg(cmd[2], cmd[3], cmd[4])
      [] cmd[1] = "Print" -> print(cmd[2], cmd[3], cmd[4])
      [] cmd[1] = "PrintColor" -> print_color(cmd[2], cmd[3], cmd[4], cmd[5], cmd[6])
      [] cmd[1] = "PrintCentered" -> print_centered(cmd[2], cmd[3])
      [] cmd[1] = "PrintColorCentered" ->
             print_color_centered(cmd[2], cmd[4], cmd[5], cmd[3])
      [] cmd[1] = "PrintCenteredAt" -> print_centered_at(cmd[2], cmd[3], cmd[4])
      [] cmd[1] = "PrintColorCenteredAt" ->
             print_color_centered_at(cmd[2], cmd[3], cmd[5], cmd[6], cmd[4])
      [] cmd[1] = "PrintRight" -> print_right(cmd[2], cmd[3], cmd[4])
      [] cmd[1] = "PrintColorRight" ->
             print_color_right(cmd[2], cmd[3], cmd[5], cmd[6], cmd[4])
      [] cmd[1] = "Printer" -> printer(cmd[2], cmd[3], cmd[4], cmd[5], cmd[6])
      [] cmd[1] = "Box" -> draw_box(cmd[2], cmd[3], cmd[4], cmd[5], cmd[6], cmd[7])
      [] cmd[1] = "HollowBox" ->
             draw_hollow_box(cmd[2], cmd[3], cmd[4], cmd[5], cmd[6], cmd[7])
      [] cmd[1] = "DoubleBox" ->
             draw_box_double(cmd[2], cmd[3], cmd[4], cmd[5], cmd[6], cmd[7])
      [] cmd[1] = "HollowDoubleBox" ->
             draw_hollow_box_double(cmd[2], cmd[3], cmd[4], cmd[5], cmd[6], cmd[7])
      [] cmd[1] = "FillRegion" ->
             fill_region(<<cmd[2], cmd[3]>>, cmd[6], cmd[4], cmd[5])
      [] cmd[1] = "BarHorizontal" ->
             draw_bar_horizontal(cmd[2], cmd[3], cmd[4], cmd[5], cmd[6], cmd[7], cmd[8])
      [] cmd[1] = "BarVertical" ->
             draw_bar_vertical(cmd[2], cmd[3], cmd[4], cmd[5], cmd[6], cmd[7], cmd[8])
      [] cmd[1] = "SetClipping" -> set_clipping(cmd[2])
      [] cmd[1] = "SetFgAlpha" -> set_all_fg_alpha(cmd[2])
      [] cmd[1] = "SetBgAlpha" -> set_all_fg_alpha(cmd[2])
      [] cmd[1] = "SetAllAlpha" -> set_all_alpha(cmd[2], cmd[3])

Idle == pc \in {"idle", "returned"} /\ ~panicked /\ \A t \in Threads : tpc[t] = "idle"

\* The history of a pass is kept until the first call after it returned.
Kept(h) == IF pc = "returned" THEN <<>> ELSE h

\* Faulty variant of render_all_batches_sort: the pass starts on layer 0.
render_all_batches_sort_reset ==
    /\ Idle
    /\ \E p \in sort_unstable_by(command_buffers) :
           /\ command_buffers' = [i \in 1..Len(command_buffers) |-> command_buffers[p[i]]]
           /\ order' = [i \in 1..Len(command_buffers) |-> Kept(order)[p[i]]]
    /\ pc' = "replay"
    /\ bi' = FirstNonEmpty(command_buffers', 1)
    /\ ci' = 1
    /\ submitted' = Kept(submitted)
    /\ dispatched' = <<>>
    /\ pass_start' = <<terminals, current_layer>>
    /\ current_layer' = 0
    /\ UNCHANGED <<terminals, panicked, threadVars>>

\* let mut batches = self.command_buffers.lock(); batches.sort_unstable_by(..)
render_all_batches_sort ==
    /\ Idle
    /\ \E p \in sort_unstable_by(command_buffers) :
           /\ command_buffers' = [i \in 1..Len(command_buffers) |-> command_buffers[p[i]]]
           /\ order' = [i \in 1..Len(command_buffers) |-> Kept(order)[p[i]]]
    /\ pc' = "replay"
    /\ bi' = FirstNonEmpty(command_buffers', 1)
    /\ ci' = 1
    /\ submitted' = Kept(submitted)
    /\ dispatched' = <<>>
    /\ pass_start' = <<terminals, current_layer>>
    /\ UNCHANGED <<ctxVars, threadVars>>

\* Faulty variant of render_all_batches_dispatch: a panic clears the buffer
\* on its way out.
render_all_batches_dispatch_clearing ==
    /\ pc = "replay" /\ ~panicked
    /\ bi <= Len(command_buffers)
    /\ LET entry == command_buffers[bi][2].batch[ci]
       IN /\ Apply(entry[2])
          /\ IF panicked'
             THEN /\ command_buffers' = <<>>
                  /\ UNCHANGED <<bi, ci, dispatched>>
             ELSE /\ dispatched' = Append(dispatched,
                        [sub |-> order[bi], key |-> entry[1], cmd |-> entry[2],
                         layer |-> current_layer])
                  /\ IF ci < Len(command_buffers[bi][2].batch)
                     THEN bi' = bi /\ ci' = ci + 1
                     ELSE bi' = FirstNonEmpty(command_buffers, bi + 1) /\ ci' = 1
                  /\ UNCHANGED command_buffers
    /\ UNCHANGED <<pc, submitted, order, pass_start, threadVars>>

\* One iteration of the nested for_each: the command at (bi, ci) is matched
\* and forwarded. A panic unwinds out of the pass (the position stays).
render_all_batches_dispatch ==
    /\ pc = "replay" /\ ~panicked
    /\ bi <= Len(command_buffers)
    /\ LET entry == command_buffers[bi][2].batch[ci]
       IN /\ Apply(entry[2])
          /\ IF panicked'
             THEN UNCHANGED <<bi, ci, dispatched>>
             ELSE /\ dispatched' = Append(dispatched,
                        [sub |-> order[bi], key |-> entry[1], cmd |-> entry[2],
                         layer |-> current_layer])
                  /\ IF ci < Len(command_buffers[bi][2].batch)
                     THEN bi' = bi /\ ci' = ci + 1
                     ELSE bi' = FirstNonEmpty(command_buffers, bi + 1) /\ ci' = 1
    /\ UNCHANGED <<command_buffers, pc, submitted, order, pass_start, threadVars>>

\* Faulty variant of render_all_batches_clear: the buffer is not cleared.
render_all_batches_no_clear ==
    /\ pc = "replay" /\ ~panicked
    /\ bi > Len(command_buffers)
    /\ pc' = "returned"
    /\ bi' = 1
    /\ ci' = 1
    /\ UNCHANGED <<command_buffers, ctxVars, histVars, threadVars>>

\* batches.clear(); the guard is dropped and the call returns.
render_all_batches_clear ==
    /\ pc = "replay" /\ ~panicked
    /\ bi > Len(command_buffers)
    /\ command_buffers' = <<>>
    /\ pc' = "returned"
    /\ bi' = 1
    /\ ci' = 1
    /\ UNCHANGED <<ctxVars, histVars, threadVars>>

\* ----------------------------------------------------------------- API calls
\* A call made between passes, by the thread that owns the context.
Submit(z_order, batch) ==
    /\ Idle
    /\ Len(command_buffers) < MaxBatches
    /\ submit_batch(z_order, batch)
    /\ submitted' = Append(Kept(submitted), <<z_order, batch>>)
    /\ order' = Append(Kept(order), Len(Kept(submitted)) + 1)
    /\ dispatched' = <<>>
    /\ pass_start' = <<>>
    /\ pc' = "idle"
    /\ UNCHANGED <<bi, ci, threadVars>>

\* What an immediate call leaves alone.
ImmediateFrame ==
    /\ submitted' = Kept(submitted)
    /\ order' = Kept(order)
    /\ dispatched' = <<>>
    /\ pass_start' = <<>>
    /\ pc' = "idle"
    /\ UNCHANGED <<command_buffers, bi, ci, threadVars>>

Call_set_layer(layer) == Idle /\ set_layer(layer) /\ ImmediateFrame

Call_cls == Idle /\ cls /\ ImmediateFrame

Call_set(x, y, fg, bg, glyph) == Idle /\ set(x, y, fg, bg, glyph) /\ ImmediateFrame

Call_cls_bg(color) == Idle /\ cls_bg(color) /\ ImmediateFrame

Call_set_bg(x, y, bg) == Idle /\ set_bg(x, y, bg) /\ ImmediateFrame

Call_set_clipping(clipping) == Idle /\ set_clipping(clipping) /\ ImmediateFrame

Call_print(x, y, text) == Idle /\ print(x, y, text) /\ ImmediateFrame

Call_print_centered(y, text) == Idle /\ print_centered(y, text) /\ ImmediateFrame

Call_print_color_centered(y, fg, bg, text) ==
    Idle /\ print_color_centered(y, fg, bg, text) /\ ImmediateFrame

Call_print_centered_at(x, y, text) ==
    Idle /\ print_centered_at(x, y, text) /\ ImmediateFrame

Call_print_color_centered_at(x, y, fg, bg, text) ==
    Idle /\ print_color_centered_at(x, y, fg, bg, text) /\ ImmediateFrame

Call_print_right(x, y, text) == Idle /\ print_right(x, y, text) /\ ImmediateFrame

Call_print_color_right(x, y, fg, bg, text) ==
    Idle /\ print_color_right(x, y, fg, bg, text) /\ ImmediateFrame

Call_print_color(x, y, text, fg, bg) ==
    Idle /\ print_color(x, y, text, fg, bg) /\ ImmediateFrame

Call_printer(x, y, output, align, background) ==
    Idle /\ printer(x, y, output, align, background) /\ ImmediateFrame

Call_draw_box(x, y, width, height, fg, bg) ==
    Idle /\ draw_box(x, y, width, height, fg, bg) /\ ImmediateFrame

Call_draw_hollow_box(x, y, width, height, fg, bg) ==
    Idle /\ draw_hollow_box(x, y, width, height, fg, bg) /\ ImmediateFrame

Call_draw_box_double(x, y, width, height, fg, bg) ==
    Idle /\ draw_box_double(x, y, width, height, fg, bg) /\ ImmediateFrame

Call_draw_hollow_box_double(x, y, width, height, fg, bg) ==
    Idle /\ draw_hollow_box_double(x, y, width, height, fg, bg) /\ ImmediateFrame

Call_fill_region(target, glyph, fg, bg) ==
    Idle /\ fill_region(target, glyph, fg, bg) /\ ImmediateFrame

Call_draw_bar_horizontal(x, y, width, n, max, fg, bg) ==
    Idle /\ draw_bar_horizontal(x, y, width, n, max, fg, bg) /\ ImmediateFrame

Call_draw_bar_vertical(x, y, height, n, max, fg, bg) ==
    Idle /\ draw_bar_vertical(x, y, height, n, max, fg, bg) /\ ImmediateFrame

Call_set_all_fg_alpha(alpha) == Idle /\ set_all_fg_alpha(alpha) /\ ImmediateFrame

Call_set_all_bg_alpha(alpha) == Idle /\ set_all_bg_alpha(alpha) /\ ImmediateFrame

Call_set_all_alpha(fg, bg) == Idle /\ set_all_alpha(fg, bg) /\ ImmediateFrame

\* What a query call leaves alone.
QueryFrame ==
    /\ submitted' = Kept(submitted)
    /\ order' = Kept(order)
    /\ dispatched' = <<>>
    /\ pass_start' = <<>>
    /\ pc' = "idle"
    /\ UNCHANGED <<command_buffers, bi, ci, tpc, tcall, tidx, tlen, lockVars>>

Call_get_char_size == Idle /\ get_char_size /\ QueryFrame

Call_at(x, y) == Idle /\ at(x, y) /\ QueryFrame

Call_try_at(x, y) == Idle /\ try_at(x, y) /\ QueryFrame

Call_get_clipping == Idle /\ get_clipping /\ QueryFrame

Call_get_pixel_size == Idle /\ get_pixel_size /\ QueryFrame

Call_resize_terminals(sizes) == Idle /\ resize_terminals(sizes) /\ ImmediateFrame

\* ------------------------------------------------------------ specifications
\* BracketContext::new, and the layers the crate's setup pushes.
Init ==
    /\ terminals \in {[i \in 1..n |-> NewGrid] : n \in 0..NumLayers}
    /\ current_layer = 0
    /\ command_buffers = <<>>
    /\ panicked = FALSE
    /\ pc = "idle"
    /\ bi = 1
    /\ ci = 1
    /\ submitted = <<>>
    /\ order = <<>>
    /\ dispatched = <<>>
    /\ pass_start = <<>>
    /\ tpc = [t \in Threads |-> "idle"]
    /\ tcall = [t \in Threads |-> <<>>]
    /\ tidx = [t \in Threads |-> 0]
    /\ tlen = [t \in Threads |-> 0]
    /\ lock_terminals = 0
    /\ lock_current_layer = 0
    /\ lock_command_buffers = 0
    /\ ret = <<"unit">>

ZOrders == 0..MaxZ

\* Replay of batches that draw and select layers.
ReplayCmds ==
    {<<"Set", 0, 0, 1, 0, 88>>, <<"Set", 0, 0, 1, 0, 89>>}
        \cup {<<"SetTarget", l>> : l \in 0..(NumLayers - 1)}

Next ==
    \/ \E z \in ZOrders, b \in Batches({0}, ReplayCmds, {FALSE}) : Submit(z, b)
    \/ \E l \in 0..(NumLayers - 1) : Call_set_layer(l)
    \/ \E glyph \in {88, 89} : Call_set(0, 0, 1, 0, glyph)
    \/ Call_cls
    \/ render_all_batches_sort
    \/ render_all_batches_dispatch
    \/ render_all_batches_clear

Spec == Init /\ [][Next]_vars

\* Replay of batches with priority keys, flagged for sorting or not.
SortCmds == {<<"Set", 0, 0, 1, 0, 88>>, <<"Set", 0, 0, 1, 0, 89>>}

NextSort ==
    \/ \E z \in ZOrders, b \in Batches(0..MaxKey, SortCmds, BOOLEAN) : Submit(z, b)
    \/ render_all_batches_sort
    \/ render_all_batches_dispatch
    \/ render_all_batches_clear

SpecSort == Init /\ [][NextSort]_vars

\* The immediate drawing operations, each on the current layer.
Alphas == {0, 1}

ImmediateDraw ==
    \/ Call_cls
    \/ Call_cls_bg(1)
    \/ \E bg \in {0, 1} : Call_set(0, 0, 1, bg, 88)
    \/ Call_set_bg(0, 0, 1)
    \/ \E clipping \in {<<>>, <<0, 0, 1, 1>>} : Call_set_clipping(clipping)
    \/ Call_print(0, 0, 88)
    \/ Call_print_centered(0, 88)
    \/ Call_print_color_centered(0, 1, 1, 88)
    \/ Call_print_centered_at(0, 0, 88)
    \/ Call_print_color_centered_at(0, 0, 1, 1, 88)
    \/ Call_print_right(0, 0, 88)
    \/ Call_print_color_right(0, 0, 1, 1, 88)
    \/ Call_print_color(0, 0, 88, 1, 1)
    \/ Call_printer(0, 0, 88, 0, 0)
    \/ Call_draw_box(0, 0, 1, 1, 1, 0)
    \/ Call_draw_hollow_box(0, 0, 1, 1, 1, 0)
    \/ Call_draw_box_double(0, 0, 1, 1, 1, 0)
    \/ Call_draw_hollow_box_double(0, 0, 1, 1, 1, 0)
    \/ Call_fill_region(<<0, 0>>, 88, 1, 0)
    \/ Call_draw_bar_horizontal(0, 0, 1, 1, 1, 1, 0)
    \/ Call_draw_bar_vertical(0, 0, 1, 1, 1, 1, 0)
    \/ \E alpha \in Alphas : Call_set_all_fg_alpha(alpha)
    \/ \E alpha \in Alphas : Call_set_all_bg_alpha(alpha)
    \/ \E fg, bg \in Alphas : Call_set_all_alpha(fg, bg)

NextImm ==
    \/ ImmediateDraw
    \/ \E l \in 0..(NumLayers - 1) : Call_set_layer(l)
    \/ \E z \in ZOrders : Submit(z, new_draw_batch)

SpecImm == Init /\ [][NextImm]_vars

\* Alpha setters, immediate and batched.
AlphaCmds == {<<"SetFgAlpha", 0>>, <<"SetBgAlpha", 0>>, <<"SetAllAlpha", 1, 1>>}

NextAlpha ==
    \/ \E alpha \in Alphas : Call_set_all_fg_alpha(alpha)
    \/ \E alpha \in Alphas : Call_set_all_bg_alpha(alpha)
    \/ \E fg, bg \in Alphas : Call_set_all_alpha(fg, bg)
    \/ \E l \in 0..(NumLayers - 1) : Call_set_layer(l)
    \/ \E z \in ZOrders, b \in Batches({0}, AlphaCmds, {FALSE}) : Submit(z, b)
    \/ render_all_batches_sort
    \/ render_all_batches_dispatch
    \/ render_all_batches_clear

SpecAlpha == Init /\ [][NextAlpha]_vars

\* The queries of the current layer.
GridQuery ==
    \/ Call_get_char_size
    \/ Call_at(0, 0)
    \/ \E x \in {0, 1} : Call_try_at(x, 0)
    \/ Call_get_clipping

\* Layer selection without a bound on the index, drawing and queries.
NextLayer ==
    \/ \E l \in 0..NumLayers : Call_set_layer(l)
    \/ ImmediateDraw
    \/ GridQuery

SpecLayer == Init /\ [][NextLayer]_vars

\* Replay of every DrawCommand variant, one batch of one command at a time.
AllCmds ==
    {<<"ClearScreen">>, <<"ClearToColor", 1>>, <<"Set", 0, 0, 0, 1, 88>>,
     <<"SetBackground", 0, 0, 1>>, <<"Print", 0, 0, 88>>,
     <<"PrintColor", 0, 0, 88, 0, 1>>, <<"PrintCentered", 0, 88>>,
     <<"PrintColorCentered", 0, 88, 0, 1>>, <<"PrintCenteredAt", 0, 0, 88>>,
     <<"PrintColorCenteredAt", 0, 0, 88, 0, 1>>, <<"PrintRight", 0, 0, 88>>,
     <<"PrintColorRight", 0, 0, 88, 0, 1>>, <<"Printer", 0, 0, 88, 0, 0>>,
     <<"Box", 0, 0, 1, 1, 0, 1>>, <<"HollowBox", 0, 0, 1, 1, 0, 1>>,
     <<"DoubleBox", 0, 0, 1, 1, 0, 1>>, <<"HollowDoubleBox", 0, 0, 1, 1, 0, 1>>,
     <<"FillRegion", 0, 0, 0, 1, 88>>, <<"BarHorizontal", 0, 0, 1, 1, 1, 0, 1>>,
     <<"BarVertical", 0, 0, 1, 1, 1, 0, 1>>, <<"SetClipping", <<0, 0, 1, 1>>>>,
     <<"SetFgAlpha", 0>>, <<"SetBgAlpha", 0>>, <<"SetAllAlpha", 0, 1>>}
        \cup {<<"SetTarget", l>> : l \in 0..(NumLayers - 1)}

NextAll ==
    \/ \E cmd \in AllCmds :
           /\ command_buffers = <<>>
           /\ Submit(0, [batch |-> <<<<0, cmd>>>>, needs_sort |-> FALSE])
    \/ render_all_batches_sort
    \/ render_all_batches_dispatch
    \/ render_all_batches_clear

SpecAll == Init /\ [][NextAll]_vars

\* Layers of different sizes in pixels, and the aggregate query.
PixelSizes == (0..MaxPixels) \X (0..MaxPixels)

NextPixel ==
    \/ \E sizes \in [1..Len(terminals) -> PixelSizes] : Call_resize_terminals(sizes)
    \/ \E l \in 0..NumLayers : Call_set_layer(l)
    \/ Call_get_pixel_size

SpecPixel == Init /\ [][NextPixel]_vars

\* ------------------------------------------------------ concurrent callers
\* Callers that share &BracketContext: each call is a sequence of steps, one
\* per mutex acquisition and per critical section.

\* Faulty variant of CanLock: the mutex does not exclude.
AlwaysLock(owner) == TRUE

\* parking_lot::Mutex::lock returns once no other caller holds the mutex.
CanLock(owner) == owner = 0

\* A caller enters set, set_layer or submit_batch; submit_batch sorts its
\* own batch before it takes the mutex.
T_call(t, call) ==
    /\ pc = "idle" /\ ~panicked
    /\ tpc[t] = "idle"
    /\ IF call[1] = "submit_batch"
       THEN /\ Len(submitted) < MaxBatches
            /\ submitted' = Append(submitted, <<call[2], call[3]>>)
            /\ tcall' = [tcall EXCEPT ![t] =
                             <<"submit_batch", call[2], SortedBatch(call[3]),
                               Len(submitted) + 1>>]
            /\ tpc' = [tpc EXCEPT ![t] = "lock_buffers"]
       ELSE /\ UNCHANGED submitted
            /\ tcall' = [tcall EXCEPT ![t] = call]
            /\ tpc' = [tpc EXCEPT ![t] =
                           IF call[1] = "set_layer" THEN "lock_layer_w"
                           ELSE "lock_terminals"]
    /\ UNCHANGED <<ctxVars, command_buffers, order, passVars, ret, tidx, tlen, lockVars>>

\* self.terminals.lock()
T_lock_terminals(t) ==
    /\ ~panicked
    /\ tpc[t] = "lock_terminals"
    /\ CanLock(lock_terminals)
    /\ lock_terminals' = t
    /\ tpc' = [tpc EXCEPT ![t] = "lock_layer_r"]
    /\ UNCHANGED <<ctxVars, command_buffers, submitted, order, passVars, ret, tcall, tidx,
                   tlen, lock_current_layer, lock_command_buffers>>

\* self.current_layer.lock(), in current_layer() and in set_layer
T_lock_layer(t) ==
    /\ ~panicked
    /\ tpc[t] \in {"lock_layer_r", "lock_layer_w"}
    /\ CanLock(lock_current_layer)
    /\ lock_current_layer' = t
    /\ tpc' = [tpc EXCEPT ![t] = IF tpc[t] = "lock_layer_r" THEN "read_layer"
                                 ELSE "write_layer"]
    /\ UNCHANGED <<ctxVars, command_buffers, submitted, order, passVars, ret, tcall, tidx,
                   tlen, lock_terminals, lock_command_buffers>>

\* Faulty variant of T_read_layer: the current_layer mutex stays held while
\* the grid operation runs.
T_read_layer_keeps_lock(t) ==
    /\ ~panicked
    /\ tpc[t] = "read_layer"
    /\ tidx' = [tidx EXCEPT ![t] = current_layer]
    /\ tpc' = [tpc EXCEPT ![t] = "grid"]
    /\ UNCHANGED <<ctxVars, command_buffers, submitted, order, passVars, ret, tcall, tlen,
                   lockVars>>

\* *self.current_layer.lock(): the index is read and the guard dropped; then
\* the Vec is indexed, which panics (dropping the terminals guard) when the
\* index is not in it.
T_read_layer(t) ==
    /\ ~panicked
    /\ tpc[t] = "read_layer"
    /\ tidx' = [tidx EXCEPT ![t] = current_layer]
    /\ lock_current_layer' = 0
    /\ IF current_layer < Len(terminals)
       THEN /\ tpc' = [tpc EXCEPT ![t] = "grid"]
            /\ UNCHANGED <<panicked, lock_terminals>>
       ELSE /\ tpc' = [tpc EXCEPT ![t] = "idle"]
            /\ panicked' = TRUE
            /\ lock_terminals' = 0
    /\ UNCHANGED <<terminals, current_layer, command_buffers, submitted, order,
                   passVars, ret, tcall, tlen, lock_command_buffers>>

\* The grid's set runs on the indexed layer; the terminals guard is dropped
\* at the end of the statement.
T_grid(t) ==
    /\ ~panicked
    /\ tpc[t] = "grid"
    /\ terminals' = [terminals EXCEPT ![tidx[t] + 1] =
                         Grid_set(@, tcall[t][2], tcall[t][3], tcall[t][4],
                                  tcall[t][5], tcall[t][6])]
    /\ lock_terminals' = 0
    /\ tpc' = [tpc EXCEPT ![t] = "idle"]
    /\ tcall' = [tcall EXCEPT ![t] = <<>>]
    /\ tidx' = [tidx EXCEPT ![t] = 0]
    /\ UNCHANGED <<current_layer, panicked, command_buffers, submitted, order,
                   passVars, ret, tlen, lock_current_layer, lock_command_buffers>>

\* Faulty variant of T_write_layer: the write waits for the terminals mutex
\* with the current_layer mutex held, against the order of the other calls.
T_write_layer_inverted(t) ==
    /\ ~panicked
    /\ tpc[t] = "write_layer"
    /\ lock_terminals \in {0, t}
    /\ current_layer' = tcall[t][2]
    /\ lock_current_layer' = 0
    /\ tpc' = [tpc EXCEPT ![t] = "idle"]
    /\ tcall' = [tcall EXCEPT ![t] = <<>>]
    /\ UNCHANGED <<terminals, panicked, command_buffers, submitted, order, passVars, ret,
                   tidx, tlen, lock_terminals, lock_command_buffers>>

\* *self.current_layer.lock() = layer
T_write_layer(t) ==
    /\ ~panicked
    /\ tpc[t] = "write_layer"
    /\ current_layer' = tcall[t][2]
    /\ lock_current_layer' = 0
    /\ tpc' = [tpc EXCEPT ![t] = "idle"]
    /\ tcall' = [tcall EXCEPT ![t] = <<>>]
    /\ UNCHANGED <<terminals, panicked, command_buffers, submitted, order, passVars, ret,
                   tidx, tlen, lock_terminals, lock_command_buffers>>

\* self.command_buffers.lock(); Vec::push reads the length
T_lock_buffers(t) ==
    /\ ~panicked
    /\ tpc[t] = "lock_buffers"
    /\ CanLock(lock_command_buffers)
    /\ lock_command_buffers' = t
    /\ tlen' = [tlen EXCEPT ![t] = Len(command_buffers)]
    /\ tpc' = [tpc EXCEPT ![t] = "push"]
    /\ UNCHANGED <<ctxVars, command_buffers, submitted, order, passVars, ret, tcall, tidx,
                   lock_terminals, lock_current_layer>>

\* Vec::push writes the entry at the length it read and stores length + 1;
\* the guard is dropped.
T_push(t) ==
    /\ ~panicked
    /\ tpc[t] = "push"
    /\ command_buffers' = Append(SubSeq(command_buffers, 1, tlen[t]),
                                 <<tcall[t][2], tcall[t][3]>>)
    /\ order' = Append(SubSeq(order, 1, tlen[t]), tcall[t][4])
    /\ lock_command_buffers' = 0
    /\ tpc' = [tpc EXCEPT ![t] = "idle"]
    /\ tcall' = [tcall EXCEPT ![t] = <<>>]
    /\ tlen' = [tlen EXCEPT ![t] = 0]
    /\ UNCHANGED <<ctxVars, submitted, passVars, ret, tidx, lock_terminals,
                   lock_current_layer>>

\* render_all_batches, step by step, by the caller t that holds &mut self:
\* no other call is in progress. It takes the command_buffers mutex and sorts.
R_lock_buffers(t) ==
    /\ pc = "idle" /\ ~panicked
    /\ \A u \in Threads : tpc[u] = "idle"
    /\ CanLock(lock_command_buffers)
    /\ lock_command_buffers' = t
    /\ \E p \in sort_unstable_by(command_buffers) :
           /\ command_buffers' = [i \in 1..Len(command_buffers) |-> command_buffers[p[i]]]
           /\ order' = [i \in 1..Len(command_buffers) |-> order[p[i]]]
    /\ pc' = "replay"
    /\ bi' = FirstNonEmpty(command_buffers', 1)
    /\ ci' = 1
    /\ UNCHANGED <<ctxVars, submitted, dispatched, pass_start, tpc, tcall, tidx, tlen,
                   lock_terminals, lock_current_layer, ret>>

\* The match arm of the next command calls self.set or self.set_layer with
\* the command_buffers guard held; the call takes its mutexes as any call.
R_dispatch(t) ==
    /\ pc = "replay" /\ ~panicked
    /\ lock_command_buffers = t
    /\ tpc[t] = "idle"
    /\ bi <= Len(command_buffers)
    /\ LET cmd == command_buffers[bi][2].batch[ci][2]
       IN IF cmd[1] = "SetTarget"
          THEN /\ tcall' = [tcall EXCEPT ![t] = <<"set_layer", cmd[2]>>]
               /\ tpc' = [tpc EXCEPT ![t] = "lock_layer_w"]
          ELSE /\ tcall' = [tcall EXCEPT ![t] =
                                <<"set", cmd[2], cmd[3], cmd[4], cmd[5], cmd[6]>>]
               /\ tpc' = [tpc EXCEPT ![t] = "lock_terminals"]
    /\ IF ci < Len(command_buffers[bi][2].batch)
       THEN bi' = bi /\ ci' = ci + 1
       ELSE bi' = FirstNonEmpty(command_buffers, bi + 1) /\ ci' = 1
    /\ UNCHANGED <<ctxVars, command_buffers, submitted, order, pc, dispatched,
                   pass_start, tidx, tlen, lockVars, ret>>

\* batches.clear(); the command_buffers guard is dropped and the pass returns.
R_clear(t) ==
    /\ pc = "replay" /\ ~panicked
    /\ lock_command_buffers = t
    /\ tpc[t] = "idle"
    /\ bi > Len(command_buffers)
    /\ command_buffers' = <<>>
    /\ submitted' = <<>>
    /\ order' = <<>>
    /\ lock_command_buffers' = 0
    /\ pc' = "idle"
    /\ bi' = 1
    /\ ci' = 1
    /\ UNCHANGED <<ctxVars, dispatched, pass_start, tpc, tcall, tidx, tlen,
                   lock_terminals, lock_current_layer, ret>>

ConcCalls ==
    {<<"set", 0, 0, 1, 0, glyph>> : glyph \in {88, 89}}
        \cup {<<"set_layer", l>> : l \in 0..(NumLayers - 1)}
        \cup {<<"submit_batch", z, b>> :
                  z \in ZOrders, b \in Batches({0}, {<<"Set", 0, 0, 1, 0, 88>>}, {FALSE})}

NextConc ==
    \E t \in Threads :
        \/ \E call \in ConcCalls : T_call(t, call)
        \/ T_lock_terminals(t)
        \/ T_lock_layer(t)
        \/ T_read_layer(t)
        \/ T_grid(t)
        \/ T_write_layer(t)
        \/ T_lock_buffers(t)
        \/ T_push(t)

SpecConc == Init /\ [][NextConc]_vars

\* Concurrent callers and replay passes, under the scheduling the platform
\* gives: a caller that can take a step takes it (WF), and a caller that
\* waits for a mutex gets it if it is free again and again (SF: the mutexes
\* of parking_lot are eventually fair).
LiveCmds == {<<"Set", 0, 0, 1, 0, 88>>, <<"SetTarget", NumLayers - 1>>}

LiveCalls ==
    {<<"set", 0, 0, 1, 0, 89>>}
        \cup {<<"set_layer", l>> : l \in 0..(NumLayers - 1)}
        \cup {<<"submit_batch", 0, [batch |-> <<<<0, cmd>>>>, needs_sort |-> FALSE]>> :
                  cmd \in LiveCmds}

NextLive ==
    \E t \in Threads :
        \/ \E call \in LiveCalls : T_call(t, call)
        \/ T_lock_terminals(t)
        \/ T_lock_layer(t)
        \/ T_read_layer(t)
        \/ T_grid(t)
        \/ T_write_layer(t)
        \/ T_lock_buffers(t)
        \/ T_push(t)
        \/ R_lock_buffers(t)
        \/ R_dispatch(t)
        \/ R_clear(t)

Fairness ==
    \A t \in Threads :
        /\ SF_vars(T_lock_terminals(t))
        /\ SF_vars(T_lock_layer(t))
        /\ SF_vars(T_lock_buffers(t))
        /\ WF_vars(T_read_layer(t))
        /\ WF_vars(T_grid(t))
        /\ WF_vars(T_write_layer(t))
        /\ WF_vars(T_push(t))
        /\ WF_vars(R_dispatch(t))
        /\ WF_vars(R_clear(t))

SpecLive == Init /\ [][NextLive]_vars /\ Fairness

\* ------------------------------------------------------------------- claims
\* The z-order with which the batch of a dispatched command was submitted.
ZOf(d) == submitted[d.sub][1]

\* The commands of submission s in the order the pass dispatched them.
Replayed(s) ==
    LET r == SelectSeq(dispatched, LAMBDA d : d.sub = s)
    IN [i \in 1..Len(r) |-> <<r[i].key, r[i].cmd>>]

\* The index of the last SetTarget dispatched before position k; 0 if none.
LastTargetBefore(k) ==
    IF \E j \in 1..(k - 1) : dispatched[j].cmd[1] = "SetTarget"
    THEN CHOOSE j \in 1..(k - 1) :
             /\ dispatched[j].cmd[1] = "SetTarget"
             /\ \A m \in (j + 1)..(k - 1) : dispatched[m].cmd[1] # "SetTarget"
    ELSE 0

\* C1: the commands of a pass are dispatched batch by batch in non-decreasing
\* z-order of their batches, whatever the order of submission: no command of
\* a batch is dispatched before a command of a batch with a lower z-order,
\* and the commands of one batch are dispatched together.
C1_ZOrderReplay ==
    \A i, j \in 1..Len(dispatched) :
        i < j =>
            /\ ZOf(dispatched[i]) <= ZOf(dispatched[j])
            /\ dispatched[i].sub = dispatched[j].sub =>
                   \A k \in i..j : dispatched[k].sub = dispatched[i].sub

C1_Witness ==
    /\ pc = "returned"
    /\ Len(submitted) = 2
    /\ submitted[1][1] > submitted[2][1]
    /\ Len(dispatched) = 4
    /\ dispatched[1].sub = 2
    /\ dispatched[4].sub = 1

\* C2: once a SetTarget{console: L} is dispatched, the next grid command of
\* the pass, in the same or in a later batch, is applied to layer L, until
\* another SetTarget is dispatched; a batch boundary does not reset it.
C2_TargetPersists ==
    dispatched # <<>> =>
        LET k == Len(dispatched)
            t == LastTargetBefore(k)
        IN (dispatched[k].cmd[1] = "Set" /\ t > 0) =>
               /\ dispatched[k].layer = dispatched[t].cmd[2]
               /\ dispatched[t].cmd[2] < Len(terminals)
               /\ terminals[dispatched[t].cmd[2] + 1].cells[<<0, 0>>].glyph
                      = dispatched[k].cmd[6]

C2_Witness ==
    /\ Len(dispatched) = 3
    /\ dispatched[1].layer = 0
    /\ dispatched[1].cmd = <<"SetTarget", 1>>
    /\ dispatched[2].cmd[1] = "Set"
    /\ dispatched[3].cmd[1] = "Set"
    /\ dispatched[3].sub # dispatched[1].sub
    /\ terminals[2].cells[<<0, 0>>].glyph = dispatched[3].cmd[6]
    /\ terminals[1] = NewGrid

\* The two batches of the scenario of spec section 8.
BatchA == [batch |-> <<<<0, <<"Set", 0, 0, 1, 0, 88>>>>, <<0, <<"SetTarget", 1>>>>>>,
           needs_sort |-> FALSE]

BatchB == [batch |-> <<<<0, <<"Set", 0, 0, 1, 0, 89>>>>>>, needs_sort |-> FALSE]

\* A pass has returned that started on a fresh context of at least two layers
\* (current layer 0) with A (z = 1) and then B (z = 0) submitted.
ScenarioRun ==
    /\ pc = "returned"
    /\ submitted = <<<<1, BatchA>>, <<0, BatchB>>>>
    /\ Len(pass_start[1]) >= 2
    /\ \A i \in 1..Len(pass_start[1]) : pass_start[1][i] = NewGrid
    /\ pass_start[2] = 0

\* C3 as stated: after the scenario, layer 0 cell (0,0) holds 'Y' (89), the
\* current layer is 1 and the command buffer is empty.
C3_ScenarioAsStated ==
    ScenarioRun =>
        /\ terminals[1].cells[<<0, 0>>].glyph = 89
        /\ current_layer = 1
        /\ command_buffers = <<>>

\* C3, amended: after the scenario, layer 0 cell (0,0) holds 'X' (88): B is
\* replayed first and draws 'Y' on layer 0, then A draws 'X' over it before
\* it selects layer 1; the current layer is 1 and the buffer is empty.
C3_ScenarioAmended ==
    ScenarioRun =>
        /\ terminals[1].cells[<<0, 0>>].glyph = 88
        /\ current_layer = 1
        /\ command_buffers = <<>>

C3_Witness == ScenarioRun /\ ~panicked /\ Len(dispatched) = 3

\* C4: when render_all_batches has returned, the command buffer is empty,
\* whatever was submitted, an empty batch included.
C4_BufferEmptyAfterRender == pc = "returned" => command_buffers = <<>>

C4_Witness ==
    /\ pc = "returned"
    /\ Len(submitted) = 1
    /\ submitted[1][2].batch = <<>>
    /\ command_buffers = <<>>

\* C5: the commands of a batch flagged needs_sort are replayed in ascending
\* priority key (and are the commands submitted); the commands of a batch not
\* flagged are replayed in exactly their insertion order.
C5_BatchOrder ==
    pc = "returned" =>
        \A s \in 1..Len(submitted) :
            LET orig == submitted[s][2].batch
                r == Replayed(s)
            IN IF submitted[s][2].needs_sort
               THEN /\ Len(r) = Len(orig)
                    /\ \A i \in 1..(Len(r) - 1) : r[i][1] <= r[i + 1][1]
                    /\ \E p \in Perms(Len(r)) : \A i \in 1..Len(r) : r[i] = orig[p[i]]
               ELSE r = orig

C5_Witness ==
    /\ pc = "returned"
    /\ Len(submitted) = 2
    /\ \E s, u \in 1..2 :
           /\ submitted[s][2].needs_sort
           /\ ~submitted[u][2].needs_sort
           /\ Len(submitted[s][2].batch) = 2
           /\ Len(submitted[u][2].batch) = 2
           /\ submitted[s][2].batch[1][1] > submitted[s][2].batch[2][1]
           /\ submitted[u][2].batch[1][1] > submitted[u][2].batch[2][1]
           /\ Replayed(s) = <<submitted[s][2].batch[2], submitted[s][2].batch[1]>>
           /\ Replayed(u) = submitted[u][2].batch

\* C7: a step of submit_batch (the buffer changes outside a pass) changes no
\* layer grid and not the current-layer index; it appends exactly one entry,
\* the submitted (z_order, batch), to the command buffer. new_draw_batch is
\* the empty batch, a value.
C7_SubmitFrame ==
    [][(pc # "replay" /\ pc' # "replay" /\ command_buffers' # command_buffers) =>
           /\ terminals' = terminals
           /\ current_layer' = current_layer
           /\ Len(command_buffers') = Len(command_buffers) + 1
           /\ SubSeq(command_buffers', 1, Len(command_buffers)) = command_buffers
           /\ command_buffers'[Len(command_buffers')][1] = submitted'[Len(submitted')][1]
           /\ command_buffers'[Len(command_buffers')][2] =
                  SortedBatch(submitted'[Len(submitted')][2])
           /\ new_draw_batch.batch = <<>>]_vars

C7_Witness ==
    /\ pc = "idle"
    /\ Len(terminals) = 2
    /\ terminals = <<NewGrid, NewGrid>>
    /\ current_layer = 0
    /\ Len(command_buffers) = 1
    /\ command_buffers[1][2].batch = <<<<0, <<"Set", 0, 0, 1, 0, 88>>>>, <<0, <<"SetTarget", 1>>>>>>

\* C6: an immediate drawing operation changes at most the grid at the
\* current-layer index: the grids of the other layers, the number of layers,
\* the current-layer index and the command buffer stay as they are.
C6_ImmediateFrame ==
    [][ImmediateDraw =>
           /\ Len(terminals') = Len(terminals)
           /\ \A i \in 1..Len(terminals) :
                  i # current_layer + 1 => terminals'[i] = terminals[i]
           /\ current_layer' = current_layer
           /\ command_buffers' = command_buffers]_vars

C6_Witness ==
    /\ Len(terminals) = 2
    /\ current_layer = 1
    /\ terminals[1] = NewGrid
    /\ terminals[2].cells[<<0, 0>>].glyph = 35
    /\ terminals[2].clip # <<>>
    /\ terminals[2].bg_alpha = 0
    /\ command_buffers # <<>>

\* The pass dispatches cmd in this step.
Dispatches(cmd) ==
    /\ render_all_batches_dispatch
    /\ command_buffers[bi][2].batch[ci][2] = cmd

\* C8 as stated: set_all_fg_alpha and a dispatched SetFgAlpha set the
\* foreground alpha of the current layer and leave its background alpha;
\* set_all_bg_alpha and a dispatched SetBgAlpha set the background alpha and
\* leave the foreground alpha.
C8_AlphaChannelsIndependent ==
    [][\A a \in Alphas :
           /\ ((Call_set_all_fg_alpha(a) \/ Dispatches(<<"SetFgAlpha", a>>)) /\ ~panicked') =>
                  /\ terminals'[current_layer + 1].fg_alpha = a
                  /\ terminals'[current_layer + 1].bg_alpha
                         = terminals[current_layer + 1].bg_alpha
           /\ ((Call_set_all_bg_alpha(a) \/ Dispatches(<<"SetBgAlpha", a>>)) /\ ~panicked') =>
                  /\ terminals'[current_layer + 1].bg_alpha = a
                  /\ terminals'[current_layer + 1].fg_alpha
                         = terminals[current_layer + 1].fg_alpha]_vars

\* C9: under every interleaving of concurrent set, set_layer and
\* submit_batch calls, at most one caller is inside an operation on the
\* layer grids (holds the terminals mutex), at most one is inside the push
\* on the command buffer, and once no submit_batch call is in flight every
\* submitted batch is in the buffer exactly once.
C9_Serialized ==
    /\ Cardinality({t \in Threads : tpc[t] \in {"lock_layer_r", "read_layer", "grid"}}) <= 1
    /\ Cardinality({t \in Threads : tpc[t] = "push"}) <= 1
    /\ (\A t \in Threads : tpc[t] \notin {"lock_buffers", "push"}) =>
           /\ Len(command_buffers) = Len(submitted)
           /\ Len(order) = Len(submitted)
           /\ \A s \in 1..Len(submitted) :
                  Cardinality({i \in 1..Len(order) : order[i] = s}) = 1
           /\ \A i \in 1..Len(command_buffers) :
                  command_buffers[i] =
                      <<submitted[order[i]][1], SortedBatch(submitted[order[i]][2])>>

C9_Witness ==
    /\ tpc[1] = "grid"
    /\ tpc[2] = "lock_terminals"
    /\ Len(command_buffers) = 2
    /\ order = <<2, 1>>

\* C10 as stated: while a caller's immediate operation is executing against
\* a grid, the current-layer index does not change.
C10_SingleBoundary ==
    [][(\E t \in Threads : tpc[t] = "grid") => current_layer' = current_layer]_vars

\* C10, amended: the layer sequence and the current-layer index are guarded
\* by two separate mutexes. An immediate operation holds the terminals mutex
\* from its acquisition to its return, and holds the current_layer mutex only
\* while it reads the index: it is released before the grid operation runs,
\* which works on the layer whose (valid) index was read.
C10_TwoMutexes ==
    \A t \in Threads :
        /\ tpc[t] \in {"lock_layer_r", "read_layer", "grid"} => lock_terminals = t
        /\ tpc[t] = "read_layer" => lock_current_layer = t
        /\ tpc[t] = "grid" => (lock_current_layer # t /\ tidx[t] < Len(terminals))

C10_Witness ==
    /\ tpc[1] = "grid"
    /\ tidx[1] = 0
    /\ current_layer = 1
    /\ tpc[2] = "idle"
    /\ lock_current_layer = 0

\* C11: set_layer(i) never fails and makes i the current-layer index, also
\* when i is not an index of the layer stack; while the current-layer index
\* is outside the stack, every drawing operation and every query of the
\* current layer (at, try_at, get_char_size, get_clipping) panics: it returns
\* nothing, no absent result either, and no layer grid is modified.
C11_SetLayerUnchecked ==
    [][/\ \A l \in 0..NumLayers :
              Call_set_layer(l) =>
                  (current_layer' = l /\ ~panicked' /\ terminals' = terminals)
       /\ (current_layer >= Len(terminals) /\ (ImmediateDraw \/ GridQuery)) =>
              (panicked' /\ terminals' = terminals /\ ret' = ret)]_vars

C11_Witness ==
    /\ Len(terminals) = NumLayers
    /\ current_layer = NumLayers
    /\ panicked
    /\ ret[1] = "None"
    /\ terminals[1] # NewGrid

\* The index of the last Set dispatched on layer l; 0 if none.
LastSetOn(l) ==
    IF \E k \in 1..Len(dispatched) :
           dispatched[k].cmd[1] = "Set" /\ dispatched[k].layer = l
    THEN CHOOSE k \in 1..Len(dispatched) :
             /\ dispatched[k].cmd[1] = "Set" /\ dispatched[k].layer = l
             /\ \A m \in (k + 1)..Len(dispatched) :
                    ~(dispatched[m].cmd[1] = "Set" /\ dispatched[m].layer = l)
    ELSE 0

\* The layer grids and the current layer are those of the start of the pass
\* with the effects of exactly the commands dispatched so far.
EffectsKept ==
    /\ Len(terminals) = Len(pass_start[1])
    /\ \A l \in 0..(Len(terminals) - 1) :
           terminals[l + 1] =
               IF LastSetOn(l) = 0 THEN pass_start[1][l + 1]
               ELSE LET cmd == dispatched[LastSetOn(l)].cmd
                    IN Grid_set(pass_start[1][l + 1], cmd[2], cmd[3], cmd[4], cmd[5], cmd[6])
    /\ current_layer =
           IF LastTargetBefore(Len(dispatched) + 1) = 0 THEN pass_start[2]
           ELSE dispatched[LastTargetBefore(Len(dispatched) + 1)].cmd[2]

\* The number of commands of the buffer before position (b, c).
RECURSIVE CommandsBefore(_, _)
CommandsBefore(b, c) ==
    IF b = 1 THEN c - 1
    ELSE Len(command_buffers[b - 1][2].batch) + CommandsBefore(b - 1, c)

\* C12: when a command dispatched by render_all_batches panics, the pass ends
\* at that command: the commands before it have been dispatched and their
\* effects on the layers and on the current layer stay (no rollback), the
\* command and those after it are not dispatched, then or later, and every
\* entry of the command buffer is still in it.
C12_AbortKeepsEffects ==
    /\ [](panicked /\ pc = "replay" =>
              /\ bi <= Len(command_buffers)
              /\ Len(dispatched) = CommandsBefore(bi, ci)
              /\ EffectsKept
              /\ Len(command_buffers) = Len(submitted)
              /\ \A i \in 1..Len(command_buffers) :
                     command_buffers[i] =
                         <<submitted[order[i]][1], SortedBatch(submitted[order[i]][2])>>)
    /\ [][~(panicked /\ pc = "replay")]_vars

C12_Witness ==
    /\ panicked /\ pc = "replay"
    /\ Len(terminals) = 1
    /\ Len(command_buffers) = 2
    /\ bi = 2 /\ ci = 1
    /\ Len(dispatched) = 2
    /\ terminals[1].cells[<<0, 0>>].glyph = 88
    /\ pass_start[1][1] = NewGrid
    /\ current_layer = 1

\* The greatest element of a non-empty set of numbers.
Greatest(S) == CHOOSE m \in S : \A x \in S : m >= x

\* C13: get_pixel_size returns the component-wise maximum of the sizes in
\* pixels of all the layers, whatever the current-layer index (one outside
\* the stack included), and (0,0) when there is no layer; it changes no
\* layer, not the current layer and not the command buffer, and never fails.
C13_PixelSizeIsMax ==
    [][Call_get_pixel_size =>
           /\ ret' = IF terminals = <<>> THEN <<"size", 0, 0>>
                     ELSE <<"size",
                            Greatest({terminals[i].pixel_size[1] : i \in 1..Len(terminals)}),
                            Greatest({terminals[i].pixel_size[2] : i \in 1..Len(terminals)})>>
           /\ terminals' = terminals
           /\ current_layer' = current_layer
           /\ command_buffers' = command_buffers
           /\ ~panicked']_vars

C13_Witness ==
    /\ Len(terminals) = 2
    /\ terminals[1].pixel_size = <<2, 1>>
    /\ terminals[2].pixel_size = <<1, 2>>
    /\ current_layer = NumLayers
    /\ ret = <<"size", 2, 2>>

\* The immediate operation that matches a command, called with the
\* command's arguments.
Matching(cmd) ==
    CASE cmd[1] = "ClearScreen" -> cls
      [] cmd[1] = "ClearToColor" -> cls_bg(cmd[2])
      [] cmd[1] = "SetTarget" -> set_layer(cmd[2])
      [] cmd[1] = "Set" -> set(cmd[2], cmd[3], cmd[4], cmd[5], cmd[6])
      [] cmd[1] = "SetBackground" -> set_bg(cmd[2], cmd[3], cmd[4])
      [] cmd[1] = "SetClipping" -> set_clipping(cmd[2])
      [] cmd[1] = "SetFgAlpha" -> set_all_fg_alpha(cmd[2])
      [] cmd[1] = "SetBgAlpha" -> set_all_bg_alpha(cmd[2])
      [] cmd[1] = "SetAllAlpha" -> set_all_alpha(cmd[2], cmd[3])
      [] cmd[1] = "Print" -> print(cmd[2], cmd[3], cmd[4])
      [] cmd[1] = "PrintColor" -> print_color(cmd[2], cmd[3], cmd[4], cmd[5], cmd[6])
      [] cmd[1] = "PrintCentered" -> print_centered(cmd[2], cmd[3])
      [] cmd[1] = "PrintColorCentered" ->
             print_color_centered(cmd[2], cmd[4], cmd[5], cmd[3])
      [] cmd[1] = "PrintCenteredAt" -> print_centered_at(cmd[2], cmd[3], cmd[4])
      [] cmd[1] = "PrintColorCenteredAt" ->
             print_color_centered_at(cmd[2], cmd[3], cmd[5], cmd[6], cmd[4])
      [] cmd[1] = "PrintRight" -> print_right(cmd[2], cmd[3], cmd[4])
      [] cmd[1] = "PrintColorRight" ->
             print_color_right(cmd[2], cmd[3], cmd[5], cmd[6], cmd[4])
      [] cmd[1] = "Printer" -> printer(cmd[2], cmd[3], cmd[4], cmd[5], cmd[6])
      [] cmd[1] = "Box" -> draw_box(cmd[2], cmd[3], cmd[4], cmd[5], cmd[6], cmd[7])
      [] cmd[1] = "HollowBox" ->
             draw_hollow_box(cmd[2], cmd[3], cmd[4], cmd[5], cmd[6], cmd[7])
      [] cmd[1] = "DoubleBox" ->
             draw_box_double(cmd[2], cmd[3], cmd[4], cmd[5], cmd[6], cmd[7])
      [] cmd[1] = "HollowDoubleBox" ->
             draw_hollow_box_double(cmd[2], cmd[3], cmd[4], cmd[5], cmd[6], cmd[7])
      [] cmd[1] = "FillRegion" ->
             fill_region(<<cmd[2], cmd[3]>>, cmd[6], cmd[4], cmd[5])
      [] cmd[1] = "BarHorizontal" ->
             draw_bar_horizontal(cmd[2], cmd[3], cmd[4], cmd[5], cmd[6], cmd[7], cmd[8])
      [] cmd[1] = "BarVertical" ->
             draw_bar_vertical(cmd[2], cmd[3], cmd[4], cmd[5], cmd[6], cmd[7], cmd[8])

\* C14: the step in which render_all_batches dispatches a command is the
\* step of the matching immediate operation called with the command's
\* arguments in the same state (SetBgAlpha matched with set_all_bg_alpha,
\* SetFgAlpha with set_all_fg_alpha): the same layer grids, the same current
\* layer and the same fatal outcome result; so the layer stack after a pass
\* is the one the matching immediate calls made in replay order leave.
C14_ReplayIsImmediate ==
    [][\A cmd \in AllCmds : Dispatches(cmd) => Matching(cmd)]_vars

C14_Witness ==
    /\ pc = "returned"
    /\ Len(dispatched) = 1
    /\ dispatched[1].cmd = <<"SetBgAlpha", 0>>
    /\ dispatched[1].layer = 1
    /\ terminals[2].bg_alpha = 0
    /\ terminals[2].fg_alpha = 1
    /\ terminals[2].cells[<<0, 0>>].glyph = 61
    /\ terminals[1].clip # <<>>

\* C15 as stated: of two batches submitted with the same z-order, the one
\* submitted first is replayed first.
C15_StableZTiebreak ==
    \A i, j \in 1..Len(dispatched) :
        (i < j /\ ZOf(dispatched[i]) = ZOf(dispatched[j])) =>
            dispatched[i].sub <= dispatched[j].sub

\* The entries of s that carry priority key k, in their order in s.
WithKey(s, k) == SelectSeq(s, LAMBDA e : e[1] = k)

\* C16: in a batch flagged needs_sort, the commands that carry the same
\* priority key are replayed in the order in which they were inserted.
C16_StableBatchSort ==
    pc = "returned" =>
        \A s \in 1..Len(submitted) :
            submitted[s][2].needs_sort =>
                \A k \in 0..MaxKey :
                    WithKey(Replayed(s), k) = WithKey(submitted[s][2].batch, k)

C16_Witness ==
    /\ pc = "returned"
    /\ Len(submitted) = 2
    /\ \A s \in 1..2 :
           /\ submitted[s][2].needs_sort
           /\ Len(submitted[s][2].batch) = 2
           /\ submitted[s][2].batch[1][1] = submitted[s][2].batch[2][1]
           /\ submitted[s][2].batch[1][2] # submitted[s][2].batch[2][2]
           /\ Replayed(s) = submitted[s][2].batch
    /\ submitted[1][2].batch[1][1] # submitted[2][2].batch[1][1]

\* C17: render_all_batches neither resets nor restores the current-layer
\* index. The first command of a pass is dispatched on the layer that was
\* current before the pass (0 initially, else what set_layer or the SetTarget
\* of an earlier pass left); during and after the pass the current layer is
\* the target of the last SetTarget dispatched, or the layer of before the
\* pass if none was; the start and the end of a pass do not change it.
C17_LayerNotReset ==
    /\ [](pc \in {"replay", "returned"} =>
              /\ dispatched # <<>> => dispatched[1].layer = pass_start[2]
              /\ current_layer =
                     IF LastTargetBefore(Len(dispatched) + 1) = 0 THEN pass_start[2]
                     ELSE dispatched[LastTargetBefore(Len(dispatched) + 1)].cmd[2])
    /\ [][(render_all_batches_sort \/ render_all_batches_clear) =>
              current_layer' = current_layer]_vars

C17_Witness ==
    /\ pc = "returned"
    /\ pass_start[2] = 1
    /\ Len(dispatched) = 3
    /\ dispatched[1].cmd[1] = "Set"
    /\ dispatched[1].layer = 1
    /\ dispatched[2].cmd = <<"SetTarget", 0>>
    /\ dispatched[3].cmd[1] = "Set"
    /\ dispatched[3].sub # dispatched[1].sub
    /\ current_layer = 0
    /\ terminals[2].cells[<<0, 0>>].glyph = dispatched[1].cmd[6]
    /\ terminals[1].cells[<<0, 0>>].glyph = dispatched[3].cmd[6]

\* r is a prefix of s.
IsPrefix(r, s) == Len(r) <= Len(s) /\ r = SubSeq(s, 1, Len(r))

\* C18: a pass dispatches every command of every buffered batch exactly
\* once: during the pass the commands dispatched of a batch are a prefix of
\* the batch as stored, and when the pass has returned they are the whole
\* batch, equal commands included, and nothing else was dispatched. A pass
\* that starts right after a completed pass, with nothing submitted in
\* between, finds the buffer empty and dispatches nothing.
C18_ExactlyOnce ==
    /\ [](pc \in {"replay", "returned"} =>
              /\ \A k \in 1..Len(dispatched) : dispatched[k].sub \in 1..Len(submitted)
              /\ \A s \in 1..Len(submitted) :
                     /\ IsPrefix(Replayed(s), SortedBatch(submitted[s][2]).batch)
                     /\ pc = "returned" =>
                            Replayed(s) = SortedBatch(submitted[s][2]).batch)
    /\ [][(pc = "returned" /\ render_all_batches_sort) =>
              (command_buffers' = <<>> /\ bi' > Len(command_buffers'))]_vars

C18_Witness ==
    /\ pc = "returned"
    /\ Len(submitted) = 2
    /\ Len(dispatched) = 4
    /\ submitted[1][2].batch[1] = submitted[1][2].batch[2]
    /\ submitted[2][2].batch[1] = submitted[1][2].batch[1]
    /\ Replayed(1) = submitted[1][2].batch
    /\ Replayed(2) = submitted[2][2].batch

\* C19: the mutexes are taken in one order, command_buffers before
\* terminals before current_layer: a caller that waits for a mutex holds none
\* that comes later in the order, and the current_layer mutex is released
\* before the grid operation runs. So no interleaving of concurrent set,
\* set_layer, submit_batch calls and replay passes blocks for ever: every
\* call and every pass returns (unless a call panics, which ends the run),
\* and when no call is in progress every mutex is free.
C19_NoDeadlock ==
    /\ [](\A t \in Threads :
              /\ tpc[t] = "lock_buffers" => (lock_terminals # t /\ lock_current_layer # t)
              /\ tpc[t] = "lock_terminals" => lock_current_layer # t
              /\ tpc[t] = "grid" => lock_current_layer # t)
    /\ []((pc = "idle" /\ \A t \in Threads : tpc[t] = "idle") =>
              (lock_terminals = 0 /\ lock_current_layer = 0 /\ lock_command_buffers = 0))
    /\ \A t \in Threads : (tpc[t] # "idle") ~> (tpc[t] = "idle" \/ panicked)
    /\ (pc = "replay") ~> (pc = "idle" \/ panicked)

C19_Witness ==
    /\ pc = "replay"
    /\ lock_command_buffers = 1
    /\ lock_terminals = 1
    /\ lock_current_layer = 1
    /\ tpc[1] = "read_layer"
    /\ Len(command_buffers) = 2
    /\ ~panicked

====
